---- MODULE Spec2Model ----
(***************************************************************************)
(* The todo entity store of src/src/todo.rs: five operations, each one SQL *)
(* statement run against a SQLite table through sqlx.                      *)
(*                                                                         *)
(* The store is the table `todos` (rows in rowid order), its AUTOINCREMENT *)
(* counter and the clock that datetime('now') and CURRENT_TIMESTAMP read   *)
(* (one-second resolution). The migration that creates the table and the   *)
(* modules error.rs, api.rs and router.rs are not part of the source tree  *)
(* at hand; what the model needs of them is taken from the specification.  *)
(***************************************************************************)
EXTENDS Integers, Sequences, FiniteSets

VARIABLES todos,     \* the rows of table todos, in rowid order
          seq,       \* the table's AUTOINCREMENT counter (sqlite_sequence)
          clock,     \* the store clock (the host's wall clock), in whole seconds
          last,      \* history: the operation that ran last
          hist,      \* history: what the creates so far have returned
          handlers   \* the request handlers in flight (concurrent specification)

vars == <<todos, seq, clock, last, hist, handlers>>

\* Bounds of the model.
MaxRows == 2       \* creates are capped at this many rows
MaxClock == 1      \* the latest second the clock reaches

Bodies == {"a", "b"}
Ids == 1..(MaxRows + 1)          \* MaxRows + 1 is an id no row ever has
Handlers == {"h1", "h2"}

(***************************************************************************)
(* Values                                                                  *)
(***************************************************************************)
\* struct Todo
Todo(id, body, completed, created_at, updated_at) ==
    [id |-> id, body |-> body, completed |-> completed,
     created_at |-> created_at, updated_at |-> updated_at]

\* struct CreateTodo
CreateTodo(body) == [body |-> body]

\* struct UpdateTodo
UpdateTodo(body, completed) == [body |-> body, completed |-> completed]

\* Result<_, Error>: Ok carries the returned rows (one for a Todo, all for a
\* Vec<Todo>, none for ()), Err carries the Error variant.
Ok(rows) == [kind |-> "Ok", rows |-> rows]
Err(e) == [kind |-> e, rows |-> <<>>]

\* The database handle's content as the statements see it.
Db(rows, s) == [todos |-> rows, seq |-> s]

\* A statement's outcome: the database after it and what the driver got back,
\* either an sqlx error or the rows the statement produced.
Outcome(db, err, rows) == [db |-> db, err |-> err, rows |-> rows]

(***************************************************************************)
(* Schema (migration) and error mapping                                    *)
(***************************************************************************)
\* The one table of the persisted schema.
Tables == {"todos"}

\* id integer primary key autoincrement: one more than the largest id ever
\* assigned, deleted rows included.
NextRowid(db) == db.seq + 1

\* Column defaults of an inserted row: completed false, both timestamps the
\* current time (one evaluation per statement).
InsertDefaults(id, body, now) == Todo(id, body, FALSE, now, now)

\* impl From<sqlx::Error> for Error
ErrorFrom(e) == IF e = "RowNotFound" THEN "NotFound" ELSE "StoreFailure"

(***************************************************************************)
(* sqlx fetchers over a statement's outcome                                *)
(***************************************************************************)
\* .fetch_all(&dbpool).await.map_err(Into::into)
fetch_all(o) ==
    IF o.err # "" THEN Err(ErrorFrom(o.err)) ELSE Ok(o.rows)

\* .fetch_one(&dbpool).await.map_err(Into::into)
fetch_one(o) ==
    IF o.err # "" THEN Err(ErrorFrom(o.err))
    ELSE IF o.rows = <<>> THEN Err(ErrorFrom("RowNotFound"))
    ELSE Ok(<<Head(o.rows)>>)

\* .execute(&dbpool).await?; Ok(())
execute(o) ==
    IF o.err # "" THEN Err(ErrorFrom(o.err)) ELSE Ok(<<>>)

\* Preparing a statement against a table the schema does not have fails.
NoSuchTable(db) == Outcome(db, "Database", <<>>)

\* where id = ?
WhereId(rows, id) == SelectSeq(rows, LAMBDA r : r.id = id)

\* the rows a delete ... where id = ? keeps
WhereNotId(rows, id) == SelectSeq(rows, LAMBDA r : r.id # id)

(***************************************************************************)
(* The five SQL statements                                                 *)
(***************************************************************************)
\* select * from todos
SelectAll(db, table) ==
    IF table \notin Tables THEN NoSuchTable(db)
    ELSE Outcome(db, "", db.todos)

\* select * from todos where id = ?
SelectById(db, table, id) ==
    IF table \notin Tables THEN NoSuchTable(db)
    ELSE Outcome(db, "", WhereId(db.todos, id))

\* Variant: the insert is answered but the row is not kept.
InsertReturning_unkept(db, table, now, body) ==
    IF table \notin Tables THEN NoSuchTable(db)
    ELSE LET row == InsertDefaults(NextRowid(db), body, now)
         IN  Outcome(Db(db.todos, row.id), "", <<row>>)

\* insert into todos (body) values (?) returning *
InsertReturning(db, table, now, body) ==
    IF table \notin Tables THEN NoSuchTable(db)
    ELSE LET row == InsertDefaults(NextRowid(db), body, now)
         IN  Outcome(Db(Append(db.todos, row), row.id), "", <<row>>)

\* Variant: set body = ?, updated_at = datetime('now') (completed left out).
SetRow_bodyonly(r, now, body, completed) ==
    [r EXCEPT !.body = body, !.updated_at = now]

\* Variant: set body = ?, completed = ? (updated_at not refreshed).
SetRow_nostamp(r, now, body, completed) ==
    [r EXCEPT !.body = body, !.completed = completed]

\* Variant: set body = ?, completed = ?, created_at = datetime('now').
SetRow_created(r, now, body, completed) ==
    [r EXCEPT !.body = body, !.completed = completed, !.created_at = now]

\* set body = ?, completed = ?, updated_at = datetime('now')
SetRow(r, now, body, completed) ==
    [r EXCEPT !.body = body, !.completed = completed, !.updated_at = now]

\* update todos set ... where id = ? returning *
UpdateReturning(db, table, now, id, body, completed) ==
    IF table \notin Tables THEN NoSuchTable(db)
    ELSE LET rows == [i \in 1..Len(db.todos) |->
                        IF db.todos[i].id = id
                        THEN SetRow(db.todos[i], now, body, completed)
                        ELSE db.todos[i]]
         IN  Outcome(Db(rows, db.seq), "", WhereId(rows, id))

\* delete from <table> where id = ?
DeleteWhere(db, table, id) ==
    IF table \notin Tables THEN NoSuchTable(db)
    ELSE Outcome(Db(WhereNotId(db.todos, id), db.seq), "", <<>>)

(***************************************************************************)
(* impl Todo: each operation gives the database after it and its result    *)
(***************************************************************************)
Done(o, res) == [db |-> o.db, res |-> res]

\* Variant: list fetched with fetch_one (the first row only).
list_one(db) ==
    LET o == SelectAll(db, "todos") IN Done(o, fetch_one(o))

\* Todo::list
list(db) ==
    LET o == SelectAll(db, "todos") IN Done(o, fetch_all(o))

\* Variant: read without its where clause (select * from todos).
read_any(db, id) ==
    LET o == SelectAll(db, "todos") IN Done(o, fetch_one(o))

\* Todo::read
read(db, id) ==
    LET o == SelectById(db, "todos", id) IN Done(o, fetch_one(o))

\* Variant: create answered by a second statement, select * from todos.
create_first(db, now, new_todo) ==
    LET o == InsertReturning(db, "todos", now, new_todo.body)
    IN  Done(o, fetch_one(SelectAll(o.db, "todos")))

\* Todo::create
create(db, now, new_todo) ==
    LET o == InsertReturning(db, "todos", now, new_todo.body) IN Done(o, fetch_one(o))

\* Variant: update answered with the row as selected before the statement.
update_stale(db, now, id, updated_todo) ==
    LET o == UpdateReturning(db, "todos", now, id, updated_todo.body, updated_todo.completed)
    IN  Done(o, fetch_one(SelectById(db, "todos", id)))

\* Todo::update
update(db, now, id, updated_todo) ==
    LET o == UpdateReturning(db, "todos", now, id, updated_todo.body, updated_todo.completed)
    IN  Done(o, fetch_one(o))

\* Todo::delete: the statement names table `todo`
delete(db, id) ==
    LET o == DeleteWhere(db, "todo", id) IN Done(o, execute(o))

(***************************************************************************)
(* Sequential specification: one operation at a time                       *)
(***************************************************************************)
CurDb == Db(todos, seq)

Idle == [h \in Handlers |-> [pc |-> "idle", op |-> "none", id |-> 0, body |-> "",
                             completed |-> FALSE, res |-> Err("none")]]

Init ==
    /\ todos = <<>>
    /\ seq = 0
    /\ clock = 0
    /\ last = "none"
    /\ hist = [returned |-> <<>>, onlyCreates |-> TRUE, deleted |-> FALSE, created |-> <<>>]
    /\ handlers = Idle

\* The history after operation op with outcome r: the ids create has returned
\* so far; whether creates alone have changed the store since it was empty
\* and, while that is so, the Todos those creates returned; whether a delete
\* has removed a row.
History(op, r) ==
    LET ok == r.res.kind = "Ok"
        only == /\ hist.onlyCreates
                /\ ~(op = "update" /\ ok)
                /\ ~(op = "delete" /\ r.db.todos # todos)
    IN  [returned |-> IF op = "create" /\ ok
                     THEN Append(hist.returned, r.res.rows[1].id)
                     ELSE hist.returned,
         onlyCreates |-> only,
         deleted |-> hist.deleted \/ (op = "delete" /\ r.db.todos # todos),
         created |-> IF ~only THEN <<>>
                     ELSE IF op = "create" /\ ok
                     THEN Append(hist.created, r.res.rows[1])
                     ELSE hist.created]

\* The store after operation op with outcome r, with the history of the step.
Apply(op, r) ==
    /\ todos' = r.db.todos
    /\ seq' = r.db.seq
    /\ last' = op
    /\ hist' = History(op, r)
    /\ UNCHANGED <<clock, handlers>>

List == Apply("list", list(CurDb))

Read == \E id \in Ids : Apply("read", read(CurDb, id))

Create ==
    /\ seq < MaxRows
    /\ \E body \in Bodies :
          Apply("create", create(CurDb, clock, CreateTodo(body)))

Update ==
    \E id \in Ids, body \in Bodies, completed \in BOOLEAN :
        Apply("update", update(CurDb, clock, id, UpdateTodo(body, completed)))

Delete == \E id \in Ids : Apply("delete", delete(CurDb, id))

\* A second passes on the store clock.
Tick ==
    /\ clock < MaxClock
    /\ clock' = clock + 1
    /\ UNCHANGED <<todos, seq, last, hist, handlers>>

\* The store clock is the host's wall clock, which can be set back to an
\* earlier second between two statements.
SetBack ==
    /\ \E t \in 0..(clock - 1) : clock' = t
    /\ UNCHANGED <<todos, seq, last, hist, handlers>>

Next == List \/ Read \/ Create \/ Update \/ Delete \/ Tick \/ SetBack

Spec == Init /\ [][Next]_vars

(***************************************************************************)
(* Concurrent specification: the server handles requests independently.    *)
(* A handler receives a request, awaits its one store statement (SQLite    *)
(* runs each statement as one atomic step), and later sends the response   *)
(* it holds. Other handlers' statements may run between any two steps.     *)
(* The requests in flight are taken within one second of the store clock:  *)
(* no statement's control flow reads a timestamp.                          *)
(***************************************************************************)
Request(op, id, body, completed) ==
    [pc |-> "received", op |-> op, id |-> id, body |-> body,
     completed |-> completed, res |-> Err("none")]

\* Creates received and not yet run.
PendingCreates ==
    Cardinality({h \in Handlers : handlers[h].pc = "received" /\ handlers[h].op = "create"})

\* The router hands a request, with its path id and JSON body, to a free handler.
Receive(h) ==
    /\ handlers[h].pc = "idle"
    /\ \E req \in {Request("list", 0, "", FALSE)}
              \cup {Request("read", id, "", FALSE) : id \in Ids}
              \cup {Request("create", 0, b, FALSE) : b \in Bodies}
              \cup {Request("update", id, b, c) : id \in Ids, b \in Bodies, c \in BOOLEAN}
              \cup {Request("delete", id, "", FALSE) : id \in Ids} :
          /\ req.op = "create" => seq + PendingCreates < MaxRows
          /\ handlers' = [handlers EXCEPT ![h] = req]
    /\ UNCHANGED <<todos, seq, clock, last, hist>>

\* Handler h's statement runs; h holds the result.
Await(h, op, r) ==
    /\ handlers[h].pc = "received"
    /\ handlers[h].op = op
    /\ todos' = r.db.todos
    /\ seq' = r.db.seq
    /\ handlers' = [handlers EXCEPT ![h].pc = "executed", ![h].res = r.res]
    /\ UNCHANGED <<clock, last, hist>>

todo_list(h) == Await(h, "list", list(CurDb))

todo_read(h) == Await(h, "read", read(CurDb, handlers[h].id))

todo_create(h) ==
    Await(h, "create", create(CurDb, clock, CreateTodo(handlers[h].body)))

todo_update(h) ==
    Await(h, "update",
          update(CurDb, clock, handlers[h].id,
                 UpdateTodo(handlers[h].body, handlers[h].completed)))

todo_delete(h) == Await(h, "delete", delete(CurDb, handlers[h].id))

\* The response is sent and the handler is free again.
Respond(h) ==
    /\ handlers[h].pc = "executed"
    /\ handlers' = [handlers EXCEPT ![h] = Idle[h]]
    /\ UNCHANGED <<todos, seq, clock, last, hist>>

ConcNext ==
    \/ \E h \in Handlers : Receive(h)
    \/ \E h \in Handlers : todo_list(h)
    \/ \E h \in Handlers : todo_read(h)
    \/ \E h \in Handlers : todo_create(h)
    \/ \E h \in Handlers : todo_update(h)
    \/ \E h \in Handlers : todo_delete(h)
    \/ \E h \in Handlers : Respond(h)

ConcSpec == Init /\ [][ConcNext]_vars

(***************************************************************************)
(* Properties of the sequential specification. A property of an operation  *)
(* is stated of its outcome on the store as it stands, for every argument: *)
(* each step of the specification is one such outcome.                     *)
(***************************************************************************)
IdsOf(rows) == {rows[i].id : i \in 1..Len(rows)}

RowWith(rows, id) == CHOOSE r \in {rows[i] : i \in 1..Len(rows)} : r.id = id

\* How many of the rows carry body b.
CountBody(rows, b) == Cardinality({i \in 1..Len(rows) : rows[i].body = b})

\* The ids that match no stored row.
Missing == Ids \ IdsOf(todos)

\* The Todo an outcome returns.
Returned(r) == r.res.rows[1]

\* C1: every successful create returns a Todo with the given body,
\* completed = false, created_at = updated_at, and an id no earlier create
\* has returned.
C1_CreateReturnsFreshTodo ==
    \A body \in Bodies :
        LET r == create(CurDb, clock, CreateTodo(body))
        IN  r.res.kind = "Ok" =>
                /\ Returned(r).body = body
                /\ Returned(r).completed = FALSE
                /\ Returned(r).created_at = Returned(r).updated_at
                /\ \A i \in 1..Len(hist.returned) : hist.returned[i] # Returned(r).id

\* A second create has run, after an update changed a row.
C1_Witness ==
    /\ last = "create"
    /\ Len(hist.returned) >= 2
    /\ ~hist.onlyCreates

\* C2: read or update with an id that matches no row fails with NotFound and
\* leaves the stored rows unchanged.
C2_MissingIdIsNotFound ==
    \A id \in Missing :
        /\ read(CurDb, id).res.kind = "NotFound"
        /\ read(CurDb, id).db = CurDb
        /\ \A body \in Bodies, completed \in BOOLEAN :
              LET r == update(CurDb, clock, id, UpdateTodo(body, completed))
              IN  /\ r.res.kind = "NotFound"
                  /\ r.db = CurDb

\* The last operation was an update, no update has succeeded so far, and the
\* store holds a row: the update named a missing id.
C2_Witness ==
    /\ last = "update"
    /\ hist.onlyCreates
    /\ todos # <<>>
    /\ Missing # {}

\* C3: delete of an id that matches no row succeeds with no error and leaves
\* the store unchanged.
C3_DeleteMissingSucceeds ==
    \A id \in Missing :
        /\ delete(CurDb, id).res.kind = "Ok"
        /\ delete(CurDb, id).db = CurDb

\* C4: delete of an existing id succeeds and removes exactly that row: a read
\* of the id is then NotFound, list no longer holds the id, and every other
\* row is unchanged.
C4_DeleteRemovesRow ==
    \A id \in IdsOf(todos) :
        LET r == delete(CurDb, id)
        IN  /\ r.res.kind = "Ok"
            /\ read(r.db, id).res.kind = "NotFound"
            /\ id \notin IdsOf(list(r.db).res.rows)
            /\ r.db.todos = SelectSeq(todos, LAMBDA t : t.id # id)

\* C5: update of an existing id returns a Todo with the request's body and
\* completed and the row's former id and created_at; the stored row equals
\* the returned Todo and every other row is unchanged.
C5_UpdateReplacesBoth ==
    \A id \in IdsOf(todos), body \in Bodies, completed \in BOOLEAN :
        LET r == update(CurDb, clock, id, UpdateTodo(body, completed))
            old == RowWith(todos, id)
        IN  /\ r.res.kind = "Ok"
            /\ Len(r.res.rows) = 1
            /\ Returned(r).body = body
            /\ Returned(r).completed = completed
            /\ Returned(r).id = old.id
            /\ Returned(r).created_at = old.created_at
            /\ Len(r.db.todos) = Len(todos)
            /\ \A i \in 1..Len(todos) :
                  r.db.todos[i] = IF todos[i].id = id THEN Returned(r) ELSE todos[i]

\* An update has set completed on one of two rows and left the other alone.
C5_Witness ==
    /\ last = "update"
    /\ Len(todos) = 2
    /\ todos[2].completed
    /\ ~todos[1].completed
    /\ todos[1].updated_at = todos[1].created_at

\* C6 as stated: the updated_at an update returns is strictly greater than the
\* row's updated_at before the update.
C6_UpdatedAtStrictlyGreater ==
    \A id \in IdsOf(todos), body \in Bodies, completed \in BOOLEAN :
        LET r == update(CurDb, clock, id, UpdateTodo(body, completed))
        IN  r.res.kind = "Ok" =>
                Returned(r).updated_at > RowWith(todos, id).updated_at

\* C6 as amended: the updated_at an update returns, and stores, is the store
\* clock's reading at the update, whatever the row's updated_at was before
\* (equal within the same second, smaller after the clock was set back).
C6_UpdatedAtIsNow ==
    \A id \in IdsOf(todos), body \in Bodies, completed \in BOOLEAN :
        LET r == update(CurDb, clock, id, UpdateTodo(body, completed))
        IN  /\ r.res.kind = "Ok"
            /\ Returned(r).updated_at = clock
            /\ RowWith(r.db.todos, id).updated_at = clock

\* An update has run in the second its row was created in, and the clock
\* still reads that second.
C6_Witness ==
    /\ last = "update"
    /\ \E i \in 1..Len(todos) :
          /\ todos[i].completed
          /\ todos[i].updated_at = todos[i].created_at
          /\ todos[i].updated_at = clock

\* C7: a read of the id a create has just returned succeeds and returns the
\* Todo create returned, with the created body and completed = false.
C7_ReadAfterCreate ==
    \A body \in Bodies :
        LET r == create(CurDb, clock, CreateTodo(body))
        IN  r.res.kind = "Ok" =>
                /\ read(r.db, Returned(r).id).res = Ok(<<Returned(r)>>)
                /\ read(r.db, Returned(r).id).db = r.db
                /\ Returned(r).body = body
                /\ Returned(r).completed = FALSE

\* The create of a second row has just run, and a read picks that row by id.
C7_Witness ==
    /\ last = "create"
    /\ Len(todos) = 2
    /\ read(CurDb, hist.returned[2]).res = Ok(<<todos[2]>>)

\* C8: list returns exactly the stored rows, each once, and changes nothing;
\* with no delete it returns as many entries as creates have succeeded, and
\* after creates alone the entries carry the created bodies.
C8_ListReturnsAllRows ==
    LET r == list(CurDb)
    IN  /\ r.res.kind = "Ok"
        /\ r.db = CurDb
        /\ IdsOf(r.res.rows) = IdsOf(todos)
        /\ Len(r.res.rows) = Cardinality(IdsOf(todos))
        /\ \A i \in 1..Len(r.res.rows) :
              r.res.rows[i] = RowWith(todos, r.res.rows[i].id)
        /\ ~hist.deleted => Len(r.res.rows) = Len(hist.returned)
        /\ hist.onlyCreates =>
              \A b \in Bodies :
                  CountBody(r.res.rows, b) = CountBody(hist.created, b)

\* A list has run after two creates and nothing else.
C8_Witness ==
    /\ last = "list"
    /\ hist.onlyCreates
    /\ Len(hist.created) = 2
    /\ Len(list(CurDb).res.rows) = 2

\* C9: every stored Todo has updated_at >= created_at.
C9_UpdatedNotBeforeCreated ==
    \A i \in 1..Len(todos) : todos[i].updated_at >= todos[i].created_at

(***************************************************************************)
(* Properties of the concurrent specification                              *)
(***************************************************************************)
\* Handler h holds the successful result of an operation op.
Holds(h, op) ==
    /\ handlers[h].pc = "executed"
    /\ handlers[h].op = op
    /\ handlers[h].res.kind = "Ok"

\* C10: whatever other handlers do in between, the response of an update is
\* the named row with that request's body and completed, the response of a
\* create carries that request's body, and no two responses of creates in
\* flight carry the same id.
C10_ResponseIsOwnWrite ==
    /\ \A h \in Handlers :
          Holds(h, "update") =>
              /\ handlers[h].res.rows[1].id = handlers[h].id
              /\ handlers[h].res.rows[1].body = handlers[h].body
              /\ handlers[h].res.rows[1].completed = handlers[h].completed
    /\ \A h \in Handlers :
          Holds(h, "create") =>
              /\ handlers[h].res.rows[1].body = handlers[h].body
              /\ handlers[h].res.rows[1].completed = FALSE
    /\ \A h1, h2 \in Handlers :
          (h1 # h2 /\ Holds(h1, "create") /\ Holds(h2, "create")) =>
              handlers[h1].res.rows[1].id # handlers[h2].res.rows[1].id

\* Two handlers hold responses of updates of the same row with different
\* bodies; the row now stored is the one of the later statement.
C10_Witness ==
    \E h1, h2 \in Handlers :
        /\ h1 # h2
        /\ Holds(h1, "update")
        /\ Holds(h2, "update")
        /\ handlers[h1].id = handlers[h2].id
        /\ handlers[h1].body # handlers[h2].body
        /\ RowWith(todos, handlers[h1].id) # handlers[h1].res.rows[1]

====
